---------------------------- MODULE Spec2Model ----------------------------
(***************************************************************************)
(* College basketball score prediction: the Aggregator                     *)
(* (combine_predictions.py), the Efficiency Score Model                    *)
(* (torvik_game_output.py) and the team-name ingestion steps               *)
(* (fetch_daily_games.py, kenpom_fetch.py, torvik_scrape.py,               *)
(* haslametric_scrape.py).                                                 *)
(*                                                                         *)
(* Conventions.                                                            *)
(*  - A table cell that pandas may hold as NaN is an optional value:       *)
(*    <<>> is NaN, <<v>> is the number v.                                  *)
(*  - Scores stored in the per-source prediction files are decimal         *)
(*    numbers with one decimal place; they are counted in tenths of a      *)
(*    point (ScoreUnit tenths = 1 point), so 70.5 is 705.                  *)
(*  - A data frame is the sequence of its rows, a row a record whose       *)
(*    fields carry the column names of the source.                         *)
(***************************************************************************)
EXTENDS Integers, Sequences, FiniteSets, TLC

VARIABLES
    \* ---- combine_predictions.py
    kenpom_csv,       \* kenpom_predictions.csv : [exists, rows]
    torvik_csv,       \* torvik_predictions.csv
    haslam_csv,       \* haslametrics_predictions.csv
    combined_df,      \* the merged frame with the per-source columns
    final_df,         \* the frame written to combined_predictions.csv
    combine_result,   \* "pending" | "None" | "raised" | "returned"
    \* ---- game_card_generator.py
    game_cards,       \* [status, cards]: the cards drawn by main
    \* ---- torvik_game_output.py
    D1_AVERAGES,      \* the module-level dict of league averages (tenths)
    torvik_data,      \* torvik_data.csv : [exists, has_hca, rows]
    matchups_df,      \* daily_matchups.csv : [exists, rows]
    predictions,      \* predict_games: the list of prediction dicts
    skipped,          \* predict_games: the list of skipped games
    game_idx,         \* predict_games: position of the loop of line 88
    predict_pc,       \* "start" | "loop" | "done" | "None"
    \* ---- fetch_daily_games.py, kenpom_fetch.py, torvik_scrape.py,
    \* ---- haslametric_scrape.py
    espn_events,      \* the games parsed from the ESPN scoreboard response
    kenpom_raw,       \* the Kenpom ratings response : [ok, rows]
    torvik_raw,       \* the Torvik ratings response : [ok, rows]
    haslam_raw,       \* games_data scraped from the Haslametrics page
    kenpom_data,      \* kenpom_data.csv : [exists, rows]
    unmapped_report,  \* the unmapped names printed : [schedule, haslam]
    ingest_pc,        \* "start" | "scheduled" | "kenpom" | "torvik" | "done"
                      \* | "logos"
    \* ---- espn_logo_mapping.py
    espn_teams,       \* the team objects of the ESPN teams response
    team_logos,       \* espn_team_logos.json : [exists, entries]
    logo_report,      \* the unmapped names printed by fetch_all_cbb_teams
    \* ---- run_all.py
    run_no,           \* the number of the pipeline run
    next_step,        \* the step main starts next, 0 once main has returned
    started,          \* the steps the run has started, in order
    reported,         \* what run_script returned for each of them
    steps_completed,  \* main: steps_completed
    disk,             \* the files on disk: when written, from which data
    folder_cleared,   \* clear_predictions_folder was called in this run
    pipeline_complete \* main has printed PIPELINE COMPLETE

combineVars == <<kenpom_csv, torvik_csv, haslam_csv, combined_df, final_df,
                 combine_result>>

predictVars == <<D1_AVERAGES, torvik_data, matchups_df, predictions, skipped,
                 game_idx, predict_pc>>

logoVars == <<espn_teams, team_logos, logo_report>>

ingestVars == <<espn_events, kenpom_raw, torvik_raw, haslam_raw, kenpom_data,
                unmapped_report, ingest_pc, logoVars>>

pipelineVars == <<run_no, next_step, started, reported, steps_completed, disk,
                  folder_cleared, pipeline_complete>>

vars == <<kenpom_csv, torvik_csv, haslam_csv, combined_df, final_df,
          combine_result, D1_AVERAGES, torvik_data, matchups_df, predictions,
          skipped, game_idx, predict_pc, espn_events, kenpom_raw, torvik_raw,
          haslam_raw, kenpom_data, unmapped_report, ingest_pc, espn_teams,
          team_logos, logo_report, game_cards, run_no, next_step, started,
          reported, steps_completed, disk, folder_cleared, pipeline_complete>>

(***************************************************************************)
(* Bounds of the model.                                                    *)
(***************************************************************************)
MaxRows == 2          \* rows of one per-source prediction file
MaxGames == 2         \* games of one day's slate (daily_matchups.csv)
MaxRuns == 2          \* consecutive runs of the pipeline (run_all.py)
\* Significand width of the model's binary floating-point numbers.  Python's
\* float has 53 bits; the model keeps the format (round to nearest, ties to
\* even, after every operation) at a width whose products fit the integers
\* of the model checker.
MantissaBits == 12

(***************************************************************************)
(* Optional cells and small helpers.                                       *)
(***************************************************************************)
NaN == <<>>
Num(v) == <<v>>
IsNa(c) == c = <<>>
Val(c) == c[1]

ScoreUnit == 10

Abs(x) == IF x < 0 THEN -x ELSE x

RECURSIVE SumSeq(_)
SumSeq(s) == IF s = <<>> THEN 0 ELSE Head(s) + SumSeq(Tail(s))

RECURSIVE FlatSeq(_)
FlatSeq(ss) == IF ss = <<>> THEN <<>> ELSE Head(ss) \o FlatSeq(Tail(ss))

SeqMap(Op(_), s) == [i \in 1..Len(s) |-> Op(s[i])]

\* Round the non-negative rational n/d to the nearest integer, a tie to the
\* even neighbour (numpy's rint, used by Series.round()).
RoundHalfEven(n, d) ==
    LET q == n \div d
        r == n % d
    IN  IF 2 * r < d THEN q
        ELSE IF 2 * r > d THEN q + 1
        ELSE IF q % 2 = 0 THEN q ELSE q + 1

(***************************************************************************)
(* combine_predictions.py                                                  *)
(***************************************************************************)
Matchups == {<<"A", "B">>, <<"C", "D">>}

PredRow(k, p) == [HomeTeam |-> k[1], AwayTeam |-> k[2],
                  HomeScore |-> p[1], AwayScore |-> p[2]]

\* The score pairs each source's file may hold (tenths of a point).  A
\* Torvik row always holds two numbers (torvik_scrape.py drops rows with a
\* NaN rating and fills HCA) and so does a Haslametrics row
\* (haslametric_scrape.py keeps a game only with both scores parsed);
\* kenpom_fetch.py validates no rating and leaves HCA unfilled, so a Kenpom
\* score may be NaN.
KenpomPairs == {<<Num(750), Num(700)>>, <<Num(700), Num(650)>>,
                <<Num(720), NaN>>, <<NaN, NaN>>}
TorvikPairs == {<<Num(730), Num(680)>>, <<Num(700), Num(650)>>,
                <<Num(650), Num(700)>>}
HaslamPairs == {<<Num(740), Num(690)>>}

\* The rows a file may hold: every pair for the matchup A-B, one pair for
\* the matchup C-D.
KenpomRows == {PredRow(<<"A", "B">>, p) : p \in KenpomPairs}
                \cup {PredRow(<<"C", "D">>, <<Num(700), Num(650)>>)}
TorvikRows == {PredRow(<<"A", "B">>, p) : p \in TorvikPairs}
                \cup {PredRow(<<"C", "D">>, <<Num(730), Num(680)>>)}
HaslamRows == {PredRow(<<"A", "B">>, p) : p \in HaslamPairs}
                \cup {PredRow(<<"C", "D">>, <<Num(740), Num(690)>>)}

\* A prediction file: absent, or the rows pandas reads from it.  A file with
\* no rows is what DataFrame([]).to_csv writes: it has no header line.
Files(rows) ==
    {[exists |-> FALSE, rows |-> <<>>]} \cup
    {[exists |-> TRUE, rows |-> r] :
        r \in UNION {[1..n -> rows] : n \in 0..MaxRows}}

SameKey(l, r) == l.HomeTeam = r.HomeTeam /\ l.AwayTeam = r.AwayTeam

\* Lines 41-45: the Kenpom frame with its score columns renamed.
KenpomBase(df) ==
    SeqMap(LAMBDA r : [HomeTeam |-> r.HomeTeam, AwayTeam |-> r.AwayTeam,
                       Kenpom_Home |-> r.HomeScore,
                       Kenpom_Away |-> r.AwayScore], df)

\* DataFrame.merge(right, on=['Home Team','Away Team'], how='left'): every
\* left row, in order, once per right row with its key (in the right frame's
\* order), or once with NaN in the right columns when no right row has it.
MergeTorvikRow(l, right) ==
    LET m == SelectSeq(right, LAMBDA r : SameKey(l, r))
    IN  IF m = <<>>
        THEN << [HomeTeam |-> l.HomeTeam, AwayTeam |-> l.AwayTeam,
                 Kenpom_Home |-> l.Kenpom_Home, Kenpom_Away |-> l.Kenpom_Away,
                 Torvik_Home |-> NaN, Torvik_Away |-> NaN] >>
        ELSE SeqMap(LAMBDA r :
                [HomeTeam |-> l.HomeTeam, AwayTeam |-> l.AwayTeam,
                 Kenpom_Home |-> l.Kenpom_Home, Kenpom_Away |-> l.Kenpom_Away,
                 Torvik_Home |-> r.HomeScore, Torvik_Away |-> r.AwayScore], m)

MergeTorvik(left, right) ==
    FlatSeq(SeqMap(LAMBDA l : MergeTorvikRow(l, right), left))

MergeHaslamRow(l, right) ==
    LET m == SelectSeq(right, LAMBDA r : SameKey(l, r))
    IN  IF m = <<>>
        THEN << [HomeTeam |-> l.HomeTeam, AwayTeam |-> l.AwayTeam,
                 Kenpom_Home |-> l.Kenpom_Home, Kenpom_Away |-> l.Kenpom_Away,
                 Torvik_Home |-> l.Torvik_Home, Torvik_Away |-> l.Torvik_Away,
                 Haslam_Home |-> NaN, Haslam_Away |-> NaN] >>
        ELSE SeqMap(LAMBDA r :
                [HomeTeam |-> l.HomeTeam, AwayTeam |-> l.AwayTeam,
                 Kenpom_Home |-> l.Kenpom_Home, Kenpom_Away |-> l.Kenpom_Away,
                 Torvik_Home |-> l.Torvik_Home, Torvik_Away |-> l.Torvik_Away,
                 Haslam_Home |-> r.HomeScore, Haslam_Away |-> r.AwayScore], m)

MergeHaslam(left, right) ==
    FlatSeq(SeqMap(LAMBDA l : MergeHaslamRow(l, right), left))

\* DataFrame.mean(axis=1, skipna=True) of one row's cells: the mean of the
\* cells that are not NaN, as the fraction <<sum, count>> (in tenths), and
\* NaN when every cell is NaN.
MeanSkipNaFillZero(cells) ==
    << SumSeq(SeqMap(LAMBDA c : IF IsNa(c) THEN 0 ELSE Val(c), cells)),
       Len(cells) >>

MeanSkipNa(cells) ==
    LET present == SelectSeq(cells, LAMBDA c : ~IsNa(c))
    IN  IF present = <<>> THEN NaN
        ELSE << SumSeq(SeqMap(Val, present)), Len(present) >>

\* Series.round() of a mean <<sum, count>> of tenths: whole points.  NaN
\* stays NaN.
RoundScore(m) ==
    IF IsNa(m) THEN NaN ELSE Num(RoundHalfEven(m[1], m[2] * ScoreUnit))

\* Lines 83-94.
WithAverages(r) ==
    [HomeTeam |-> r.HomeTeam, AwayTeam |-> r.AwayTeam,
     Kenpom_Home |-> r.Kenpom_Home, Kenpom_Away |-> r.Kenpom_Away,
     Torvik_Home |-> r.Torvik_Home, Torvik_Away |-> r.Torvik_Away,
     Haslam_Home |-> r.Haslam_Home, Haslam_Away |-> r.Haslam_Away,
     HomeScore |-> RoundScore(MeanSkipNa(
                     <<r.Kenpom_Home, r.Torvik_Home, r.Haslam_Home>>)),
     AwayScore |-> RoundScore(MeanSkipNa(
                     <<r.Kenpom_Away, r.Torvik_Away, r.Haslam_Away>>))]

\* Line 97.
FinalColumns(r) == [HomeTeam |-> r.HomeTeam, AwayTeam |-> r.AwayTeam,
                    HomeScore |-> r.HomeScore, AwayScore |-> r.AwayScore]

Merged(k, t, h) == MergeHaslam(MergeTorvik(KenpomBase(k), t), h)

\* Lines 23-25: the three files are read in this order and the first one
\* that cannot be read decides.  An absent file raises FileNotFoundError
\* (caught at line 114); a file without a header line raises EmptyDataError,
\* which line 114 does not catch.
RECURSIVE LoadOutcome(_)
LoadOutcome(files) ==
    IF files = <<>> THEN "loaded"
    ELSE IF ~Head(files).exists THEN "FileNotFoundError"
    ELSE IF Head(files).rows = <<>> THEN "EmptyDataError"
    ELSE LoadOutcome(Tail(files))

\* Lines 114-117: the function reports the absent file and returns None.
CombineFileNotFound ==
    /\ combine_result = "pending"
    /\ LoadOutcome(<<kenpom_csv, torvik_csv, haslam_csv>>) = "FileNotFoundError"
    /\ combine_result' = "None"
    /\ UNCHANGED <<kenpom_csv, torvik_csv, haslam_csv, combined_df, final_df>>
    /\ UNCHANGED game_cards
    /\ UNCHANGED predictVars
    /\ UNCHANGED ingestVars
    /\ UNCHANGED pipelineVars

\* The exception leaves the function uncaught.
CombineRaises ==
    /\ combine_result = "pending"
    /\ LoadOutcome(<<kenpom_csv, torvik_csv, haslam_csv>>) = "EmptyDataError"
    /\ combine_result' = "raised"
    /\ UNCHANGED <<kenpom_csv, torvik_csv, haslam_csv, combined_df, final_df>>
    /\ UNCHANGED game_cards
    /\ UNCHANGED predictVars
    /\ UNCHANGED ingestVars
    /\ UNCHANGED pipelineVars

\* Lines 21-112.
CombineReturns ==
    /\ combine_result = "pending"
    /\ LoadOutcome(<<kenpom_csv, torvik_csv, haslam_csv>>) = "loaded"
    /\ combined_df' = SeqMap(WithAverages,
                         Merged(kenpom_csv.rows, torvik_csv.rows, haslam_csv.rows))
    /\ final_df' = SeqMap(FinalColumns, combined_df')
    /\ combine_result' = "returned"
    /\ UNCHANGED <<kenpom_csv, torvik_csv, haslam_csv>>
    /\ UNCHANGED game_cards
    /\ UNCHANGED predictVars
    /\ UNCHANGED ingestVars
    /\ UNCHANGED pipelineVars

combine_predictions == CombineFileNotFound \/ CombineRaises \/ CombineReturns

\* The state of a component before it has run.
NoFile == [exists |-> FALSE, rows |-> <<>>]

NoCards == [status |-> "pending", cards |-> <<>>]

CombineIdle ==
    /\ game_cards = NoCards
    /\ kenpom_csv = NoFile
    /\ haslam_csv = NoFile
    /\ combined_df = <<>>
    /\ final_df = <<>>
    /\ combine_result = "pending"

\* Lines 10-14 of torvik_game_output.py, in tenths: 67.6 and 110.3.
D1_AVERAGES_Init == [tempo |-> 676, def_efficiency |-> 1103]

PredictIdle ==
    /\ D1_AVERAGES = D1_AVERAGES_Init
    /\ torvik_data = [exists |-> FALSE, has_hca |-> TRUE, rows |-> <<>>]
    /\ matchups_df = NoFile
    /\ predictions = <<>>
    /\ skipped = <<>>
    /\ game_idx = 1
    /\ predict_pc = "start"

NoResponse == [ok |-> FALSE, rows |-> <<>>]

\* A file that is not on disk.
Absent == [made |-> 0, oldest |-> 0]

EmptyDisk ==
    [matchups |-> Absent, kenpom_data |-> Absent, kenpom_pred |-> Absent,
     torvik_data |-> Absent, torvik_pred |-> Absent, haslam_pred |-> Absent,
     combined |-> Absent, cards |-> Absent]

PipelineIdle ==
    /\ run_no = 1
    /\ next_step = 1
    /\ started = <<>>
    /\ reported = <<>>
    /\ steps_completed = 0
    /\ disk = EmptyDisk
    /\ folder_cleared = FALSE
    /\ pipeline_complete = FALSE

IngestIdle ==
    /\ espn_events = <<>>
    /\ kenpom_raw = NoResponse
    /\ torvik_raw = NoResponse
    /\ haslam_raw = <<>>
    /\ kenpom_data = NoFile
    /\ unmapped_report = [schedule |-> <<>>, haslam |-> <<>>]
    /\ ingest_pc = "start"
    /\ espn_teams = <<>>
    /\ team_logos = [exists |-> FALSE, entries |-> {}]
    /\ logo_report = <<>>

\* A game_time cell of daily_matchups.csv.  fetch_daily_games.py writes
\* '%Y-%m-%d %I:%M %p' (line 106): the day, the hour on the 12-hour clock
\* and AM or PM; all games of a file are of one day.  A cell may also hold
\* text of another form, and the merged frame holds NaN where a prediction
\* has no matchup row.
TimeAt(h, pm) == [kind |-> "time", h |-> h, pm |-> pm]
TimeText == [kind |-> "text", h |-> 0, pm |-> FALSE]
TimeNaN == [kind |-> "nan", h |-> 0, pm |-> FALSE]

\* daily_matchups.csv of the day whose predictions are combined.
DailyMatchups ==
    [exists |-> TRUE,
     rows |-> <<[home_team |-> "A", away_team |-> "B", neutral_site |-> FALSE,
                 game_time |-> TimeAt(1, TRUE)],
                [home_team |-> "C", away_team |-> "D", neutral_site |-> TRUE,
                 game_time |-> TimeAt(11, FALSE)]>>]

(***************************************************************************)
(* game_card_generator.py                                                  *)
(***************************************************************************)
\* Line 91: home_score > away_score; a comparison with NaN is False.
HomeWinning(home_score, away_score) ==
    /\ ~IsNa(home_score) /\ ~IsNa(away_score)
    /\ Val(home_score) > Val(away_score)

\* Lines 134 and 139: red ('#d32f2f') marks the winner, black ('#222') the
\* other side.
HomeColor(home_score, away_score) ==
    IF HomeWinning(home_score, away_score) THEN "red" ELSE "black"

AwayColor(home_score, away_score) ==
    IF ~HomeWinning(home_score, away_score) THEN "red" ELSE "black"

\* Lines 296-301: the left merge of the predictions with the matchup rows
\* on the two team names: one row per matchup row of the pair, or one row
\* with NaN for a pair that has none.
MergeMatchupRow(l, right) ==
    LET m == SelectSeq(right, LAMBDA r : r.home_team = l.HomeTeam
                                          /\ r.away_team = l.AwayTeam)
    IN  IF m = <<>>
        THEN <<[HomeTeam |-> l.HomeTeam, AwayTeam |-> l.AwayTeam,
                HomeScore |-> l.HomeScore, AwayScore |-> l.AwayScore,
                game_time |-> TimeNaN]>>
        ELSE SeqMap(LAMBDA r :
                [HomeTeam |-> l.HomeTeam, AwayTeam |-> l.AwayTeam,
                 HomeScore |-> l.HomeScore, AwayScore |-> l.AwayScore,
                 game_time |-> r.game_time], m)

MergeMatchups(left, right) ==
    FlatSeq(SeqMap(LAMBDA l : MergeMatchupRow(l, right), left))

\* Line 304: pd.to_datetime with the format and errors='coerce': the
\* minute of the day, NaT (NaN) for a cell that is not of the format.
to_datetime(cell) ==
    IF cell.kind = "time"
    THEN Num(((cell.h % 12) + (IF cell.pm THEN 12 ELSE 0)) * 60)
    ELSE NaN

\* Line 305: sort_values('game_time_dt'), ascending, NaT last.  The frames
\* have fewer than 17 rows, for which the sort keeps the order of rows with
\* equal times.
InsertByTime(row, sorted) ==
    LET before == SelectSeq(sorted, LAMBDA r :
                    Val(to_datetime(r.game_time)) <= Val(to_datetime(row.game_time)))
        after == SelectSeq(sorted, LAMBDA r :
                    Val(to_datetime(r.game_time)) > Val(to_datetime(row.game_time)))
    IN  before \o <<row>> \o after

RECURSIVE SortTimed(_)
SortTimed(rows) ==
    IF rows = <<>> THEN <<>>
    ELSE InsertByTime(rows[Len(rows)], SortTimed(SubSeq(rows, 1, Len(rows) - 1)))

sort_values(rows) ==
    SortTimed(SelectSeq(rows, LAMBDA r : ~IsNa(to_datetime(r.game_time))))
        \o SelectSeq(rows, LAMBDA r : IsNa(to_datetime(r.game_time)))

\* Lines 67-159: what the card shows of a game.
create_game_card(game) ==
    [home_team |-> game.HomeTeam, away_team |-> game.AwayTeam,
     home_score |-> game.HomeScore, away_score |-> game.AwayScore,
     game_time |-> game.game_time,
     home_color |-> HomeColor(game.HomeScore, game.AwayScore),
     away_color |-> AwayColor(game.HomeScore, game.AwayScore)]

\* main (lines 276-349): combined_predictions.csv and daily_matchups.csv
\* are read, one card is drawn per row of the left merge, in the order of
\* the sort by game time, and the index lists the cards in that order; a
\* missing file is reported and no card is drawn.
GenerateCards ==
    /\ combine_result # "pending"
    /\ game_cards.status = "pending"
    /\ IF combine_result = "returned" /\ matchups_df.exists
       THEN game_cards' = [status |-> "done",
                           cards |-> SeqMap(create_game_card,
                                sort_values(MergeMatchups(final_df,
                                                          matchups_df.rows)))]
       ELSE game_cards' = [status |-> "error", cards |-> <<>>]
    /\ UNCHANGED combineVars
    /\ UNCHANGED predictVars
    /\ UNCHANGED ingestVars
    /\ UNCHANGED pipelineVars

InitCombine ==
    /\ IngestIdle
    /\ PipelineIdle
    /\ game_cards = NoCards
    /\ kenpom_csv \in Files(KenpomRows)
    /\ torvik_csv \in Files(TorvikRows)
    /\ haslam_csv \in Files(HaslamRows)
    /\ combined_df = <<>>
    /\ final_df = <<>>
    /\ combine_result = "pending"
    /\ D1_AVERAGES = D1_AVERAGES_Init
    /\ torvik_data = [exists |-> FALSE, has_hca |-> TRUE, rows |-> <<>>]
    /\ matchups_df = DailyMatchups
    /\ predictions = <<>>
    /\ skipped = <<>>
    /\ game_idx = 1
    /\ predict_pc = "start"

NextCombine == combine_predictions \/ GenerateCards

SpecCombine == InitCombine /\ [][NextCombine]_vars

(***************************************************************************)
(* game_card_generator.py run on the files of a day.                       *)
(***************************************************************************)
\* The rows of combined_predictions.csv: E-F is a pair that
\* daily_matchups.csv does not list.
CombinedRows ==
    {PredRow(<<"A", "B">>, <<Num(74), Num(69)>>),
     PredRow(<<"C", "D">>, <<Num(70), Num(70)>>),
     PredRow(<<"E", "F">>, <<Num(66), Num(71)>>)}

CombinedFrames == UNION {[1..n -> CombinedRows] : n \in 0..MaxRows}

GameTimes == {TimeAt(11, FALSE), TimeAt(1, TRUE), TimeText}

\* The rows of daily_matchups.csv: fetch_daily_games.py writes one row per
\* ESPN event (lines 64-118), whatever the teams of the other events.
ScheduleRows ==
    {[home_team |-> k[1], away_team |-> k[2], neutral_site |-> FALSE,
      game_time |-> t] : k \in Matchups, t \in GameTimes}

ScheduleFiles ==
    {NoFile} \cup
    {[exists |-> TRUE, rows |-> g] :
        g \in UNION {[1..n -> ScheduleRows] : n \in 1..MaxGames}}

InitCards ==
    /\ IngestIdle
    /\ PipelineIdle
    /\ game_cards = NoCards
    /\ kenpom_csv = NoFile
    /\ torvik_csv = NoFile
    /\ haslam_csv = NoFile
    /\ combined_df = <<>>
    /\ final_df \in CombinedFrames
    /\ combine_result = "returned"
    /\ D1_AVERAGES = D1_AVERAGES_Init
    /\ torvik_data = [exists |-> FALSE, has_hca |-> TRUE, rows |-> <<>>]
    /\ matchups_df \in ScheduleFiles
    /\ predictions = <<>>
    /\ skipped = <<>>
    /\ game_idx = 1
    /\ predict_pc = "start"

NextCards == GenerateCards

SpecCards == InitCards /\ [][NextCards]_vars

(***************************************************************************)
(* Claims about combine_predictions (checked under SpecCombine).           *)
(***************************************************************************)
\* v is an integer nearest to the mean of the cells of `cells` that are not
\* NaN (either neighbour at a tie).
NearestToMeanOfPresent(v, cells) ==
    LET S == {j \in 1..Len(cells) : ~IsNa(cells[j])}
        sum == SumSeq([j \in 1..Len(cells) |->
                          IF j \in S THEN Val(cells[j]) ELSE 0])
        k == Cardinality(S)
    IN  /\ ~IsNa(v)
        /\ 2 * Abs(Val(v) * k * ScoreUnit - sum) <= k * ScoreUnit

HomeCells(c) == <<c.Kenpom_Home, c.Torvik_Home, c.Haslam_Home>>
AwayCells(c) == <<c.Kenpom_Away, c.Torvik_Away, c.Haslam_Away>>
SomePresent(cells) == \E j \in 1..Len(cells) : ~IsNa(cells[j])

\* C1: in every row of the output, Home Score is an integer nearest to the
\* arithmetic mean of the home scores of exactly the sources that have a home
\* score for that row, and Away Score likewise from the away scores; a source
\* without a score is left out of the mean and is not counted as zero.
C1_SkipAwareMean ==
    combine_result = "returned" =>
        /\ Len(final_df) = Len(combined_df)
        /\ \A i \in 1..Len(final_df) :
             LET c == combined_df[i]
                 f == final_df[i]
             IN  /\ f.HomeTeam = c.HomeTeam /\ f.AwayTeam = c.AwayTeam
                 /\ SomePresent(HomeCells(c)) =>
                        NearestToMeanOfPresent(f.HomeScore, HomeCells(c))
                 /\ SomePresent(AwayCells(c)) =>
                        NearestToMeanOfPresent(f.AwayScore, AwayCells(c))

\* The three-source example (75,70), (73,68), (74,69) -> (74,69) and a row
\* that only Kenpom covers, (70,65) -> (70,65), in one output.
C1_Witness ==
    /\ combine_result = "returned"
    /\ \E i \in 1..Len(final_df) :
          /\ HomeCells(combined_df[i]) = <<Num(750), Num(730), Num(740)>>
          /\ AwayCells(combined_df[i]) = <<Num(700), Num(680), Num(690)>>
          /\ final_df[i].HomeScore = Num(74) /\ final_df[i].AwayScore = Num(69)
    /\ \E i \in 1..Len(final_df) :
          /\ HomeCells(combined_df[i]) = <<Num(700), NaN, NaN>>
          /\ AwayCells(combined_df[i]) = <<Num(650), NaN, NaN>>
          /\ final_df[i].HomeScore = Num(70) /\ final_df[i].AwayScore = Num(65)

HasPrediction(file, k) ==
    \E i \in 1..Len(file.rows) :
        /\ file.rows[i].HomeTeam = k[1] /\ file.rows[i].AwayTeam = k[2]
        /\ ~IsNa(file.rows[i].HomeScore) /\ ~IsNa(file.rows[i].AwayScore)

\* C2: every matchup for which at least one of the three sources has a
\* prediction gets a consensus row in the output.
C2_EveryCoveredMatchupCombined ==
    combine_result = "returned" =>
        \A k \in Matchups :
            (HasPrediction(kenpom_csv, k) \/ HasPrediction(torvik_csv, k)
                \/ HasPrediction(haslam_csv, k))
            => \E i \in 1..Len(final_df) :
                  final_df[i].HomeTeam = k[1] /\ final_df[i].AwayTeam = k[2]

\* C3: every emitted consensus row has a numeric Home Score and a numeric
\* Away Score; no row is emitted with a missing score.
C3_NoRowWithoutScore ==
    combine_result = "returned" =>
        \A i \in 1..Len(final_df) :
            ~IsNa(final_df[i].HomeScore) /\ ~IsNa(final_df[i].AwayScore)

\* The cells of the sources that supply both scores in the merged row c; the
\* cells of a source that supplies only one score are blanked.
CompleteOnly(c, cells) ==
    LET h == HomeCells(c)
        a == AwayCells(c)
    IN  [j \in 1..3 |-> IF IsNa(h[j]) \/ IsNa(a[j]) THEN NaN ELSE cells[j]]

HasPartialSource(c) ==
    \E j \in 1..3 : IsNa(HomeCells(c)[j]) # IsNa(AwayCells(c)[j])

\* C4: a source that supplies only one of the two scores of a matchup
\* contributes to neither consensus score: the consensus is the one computed
\* from the sources that supply both scores.
C4_PartialSourceIgnored ==
    combine_result = "returned" =>
        \A i \in 1..Len(final_df) :
            LET c == combined_df[i]
            IN  (HasPartialSource(c) /\ SomePresent(CompleteOnly(c, HomeCells(c))))
                => /\ NearestToMeanOfPresent(final_df[i].HomeScore,
                                             CompleteOnly(c, HomeCells(c)))
                   /\ NearestToMeanOfPresent(final_df[i].AwayScore,
                                             CompleteOnly(c, AwayCells(c)))

(***************************************************************************)
(* Binary floating-point numbers.  A float is [m, e], the number m * 2^e,  *)
(* with m = 0 or 2^(MantissaBits-1) <= |m| < 2^MantissaBits.  Every        *)
(* operation returns the float nearest to the exact result, a tie going to *)
(* the even significand (IEEE 754 round-to-nearest-even, the arithmetic of *)
(* Python's float and of pandas' float64 columns).                         *)
(***************************************************************************)
RECURSIVE Pow2(_)
Pow2(n) == IF n <= 0 THEN 1 ELSE 2 * Pow2(n - 1)

FlZero == [m |-> 0, e |-> 0]

\* Significands lie in MantissaMin .. MantissaLimit - 1.
MantissaLimit == Pow2(MantissaBits)
MantissaMin == Pow2(MantissaBits - 1)

\* The float nearest to (num / den) * 2^e, for num >= 0 and den > 0.
RECURSIVE FlNormalize(_, _, _)
FlNormalize(num, den, e) ==
    IF num = 0 THEN FlZero
    ELSE IF num >= den * MantissaLimit THEN FlNormalize(num, den * 2, e + 1)
    ELSE IF num < den * MantissaMin THEN FlNormalize(num * 2, den, e - 1)
    ELSE LET q == RoundHalfEven(num, den)
         IN  IF q = MantissaLimit
             THEN [m |-> MantissaMin, e |-> e + 1]
             ELSE [m |-> q, e |-> e]

FlRound(num, den, e) ==
    IF num >= 0 THEN FlNormalize(num, den, e)
    ELSE LET r == FlNormalize(-num, den, e) IN [m |-> -(r.m), e |-> r.e]

\* float("110.3"), the value read_csv gives the decimal text 110.3 (t = 1103).
FromTenths(t) == FlRound(t, 10, 0)
FromInt(n) == FlRound(n, 1, 0)

FlMul(a, b) == FlRound(a.m * b.m, 1, a.e + b.e)
FlDiv(a, b) ==
    IF b.m > 0 THEN FlRound(a.m, b.m, a.e - b.e)
    ELSE FlRound(-(a.m), -(b.m), a.e - b.e)

MinExp(a, b) == IF a.e < b.e THEN a.e ELSE b.e
\* The exact value of a in units of 2^e, for e <= a.e.
Scaled(a, e) == a.m * Pow2(a.e - e)

FlAdd(a, b) ==
    IF a.m = 0 THEN b
    ELSE IF b.m = 0 THEN a
    ELSE LET e == MinExp(a, b)
         IN  FlRound(Scaled(a, e) + Scaled(b, e), 1, e)
FlNeg(a) == [m |-> -(a.m), e |-> a.e]
FlSub(a, b) == FlAdd(a, FlNeg(b))

\* round(x, 1) of a non-negative float, in tenths: the decimal with one
\* place nearest to the exact value of x (a tie to the even digit).
RoundWholePoints(x) ==
    (IF x.e >= 0 THEN x.m * Pow2(x.e) ELSE RoundHalfEven(x.m, Pow2(-(x.e)))) * 10

Round1(x) ==
    IF x.e >= 0 THEN 10 * x.m * Pow2(x.e)
    ELSE RoundHalfEven(10 * x.m, Pow2(-(x.e)))

(***************************************************************************)
(* torvik_game_output.py                                                   *)
(***************************************************************************)
\* A and B may be rated; C is a team of the slate that the source does not
\* rate.
Teams == {"A", "B", "C"}

\* An HCA cell of torvik_data.csv: a number (tenths), or text that float()
\* rejects.  torvik_scrape.py fills a missing HCA with 3.0 (line 81).
HcaNum(v) == [kind |-> "num", v |-> v]
HcaText == [kind |-> "text", v |-> 0]
HcaCells == {HcaNum(30), HcaNum(33), HcaText}

\* The ratings (AdjO, AdjD, AdjT, in tenths) a team may have.
Ratings == {<<1152, 987, 684>>, <<1049, 1013, 712>>}

RatingRow(t, r, h) ==
    [Team |-> t, AdjO |-> r[1], AdjD |-> r[2], AdjT |-> r[3], HCA |-> h]

\* The rating rows of one team: none, or one row.  B is never the home team
\* of a game of the slate, so its HCA is the filled default.
TeamRows(t, hcas) ==
    {<<>>} \cup {<<RatingRow(t, r, h)>> : r \in Ratings, h \in hcas}

\* torvik_data.csv as torvik_scrape.py writes it: sorted by Team, with an
\* HCA column; or absent.
RatingFiles ==
    {[exists |-> FALSE, has_hca |-> TRUE, rows |-> <<>>]} \cup
    {[exists |-> TRUE, has_hca |-> TRUE, rows |-> a \o b] :
        a \in TeamRows("A", HcaCells), b \in TeamRows("B", {HcaNum(30)})}

GamePairs == {<<"A", "B">>, <<"A", "C">>}
Games == {[home_team |-> p[1], away_team |-> p[2], neutral_site |-> n] :
            p \in GamePairs, n \in BOOLEAN}

\* daily_matchups.csv: absent, or at least one game (fetch_daily_games.py
\* writes no file for an empty slate).
MatchupFiles ==
    {NoFile} \cup
    {[exists |-> TRUE, rows |-> g] :
        g \in UNION {[1..n -> Games] : n \in 1..MaxGames}}

\* Lines 16-21: None (<<>>) or the first row of the team (<<row>>).
get_team_data(df, team) ==
    LET team_data == SelectSeq(df.rows, LAMBDA r : r.Team = team)
    IN  IF Len(team_data) = 0 THEN <<>> ELSE <<team_data[1]>>

\* A tempo taken from the home team alone.
calculate_tempo_home_only(data, home_team, away_team) ==
    LET home_data == Val(get_team_data(data, home_team))
    IN  FlDiv(FlMul(FromTenths(home_data.AdjT), FromTenths(home_data.AdjT)),
              FromTenths(D1_AVERAGES.tempo))

\* Lines 24-30.
calculate_tempo(data, home_team, away_team) ==
    LET home_data == Val(get_team_data(data, home_team))
        away_data == Val(get_team_data(data, away_team))
    IN  FlDiv(FlMul(FromTenths(home_data.AdjT), FromTenths(away_data.AdjT)),
              FromTenths(D1_AVERAGES.tempo))

\* Line 47: the HCA added to the home score; float() raises on text.
HcaRaises(data, home_team) ==
    /\ data.has_hca
    /\ Val(get_team_data(data, home_team)).HCA.kind = "text"

HcaValueDefaultOnly(data, home_team) == FromTenths(30)

HcaValue(data, home_team) ==
    IF data.has_hca
    THEN FromTenths(Val(get_team_data(data, home_team)).HCA.v)
    ELSE FromTenths(30)

\* Lines 33-50.
calculate_home_score_always_hca(data, home_team, away_team, neutral_site) ==
    LET home_data == Val(get_team_data(data, home_team))
        away_data == Val(get_team_data(data, away_team))
        tempo == calculate_tempo(data, home_team, away_team)
        score == FlDiv(FlMul(FlMul(FromTenths(home_data.AdjO),
                                   FromTenths(away_data.AdjD)), tempo),
                       FlMul(FromTenths(D1_AVERAGES.def_efficiency), FromInt(100)))
    IN  FlAdd(score, HcaValue(data, home_team))

calculate_home_score(data, home_team, away_team, neutral_site) ==
    LET home_data == Val(get_team_data(data, home_team))
        away_data == Val(get_team_data(data, away_team))
        tempo == calculate_tempo(data, home_team, away_team)
        score == FlDiv(FlMul(FlMul(FromTenths(home_data.AdjO),
                                   FromTenths(away_data.AdjD)), tempo),
                       FlMul(FromTenths(D1_AVERAGES.def_efficiency), FromInt(100)))
    IN  IF ~neutral_site THEN FlAdd(score, HcaValue(data, home_team)) ELSE score

\* Lines 53-64.
calculate_away_score_with_hca(data, away_team, home_team) ==
    LET home_data == Val(get_team_data(data, home_team))
        away_data == Val(get_team_data(data, away_team))
        tempo == calculate_tempo(data, home_team, away_team)
    IN  FlAdd(FlDiv(FlMul(FlMul(FromTenths(away_data.AdjO),
                                FromTenths(home_data.AdjD)), tempo),
                    FlMul(FromTenths(D1_AVERAGES.def_efficiency), FromInt(100))),
              FromTenths(30))

calculate_away_score(data, away_team, home_team) ==
    LET home_data == Val(get_team_data(data, home_team))
        away_data == Val(get_team_data(data, away_team))
        tempo == calculate_tempo(data, home_team, away_team)
    IN  FlDiv(FlMul(FlMul(FromTenths(away_data.AdjO),
                          FromTenths(home_data.AdjD)), tempo),
              FlMul(FromTenths(D1_AVERAGES.def_efficiency), FromInt(100)))

\* Lines 104-107: the try block raises (float() of a text HCA, line 47).
ScoreRaises(data, game) == ~game.neutral_site /\ HcaRaises(data, game.home_team)

\* Lines 109-114: the prediction dict, the scores rounded to one decimal.
Prediction(data, game) ==
    [HomeTeam |-> game.home_team, AwayTeam |-> game.away_team,
     HomeScore |-> Num(Round1(calculate_home_score(
                        data, game.home_team, game.away_team, game.neutral_site))),
     AwayScore |-> Num(Round1(calculate_away_score(
                        data, game.away_team, game.home_team)))]

TeamMissing(data, game) ==
    \/ get_team_data(data, game.home_team) = <<>>
    \/ get_team_data(data, game.away_team) = <<>>

predictFrame == <<kenpom_csv, haslam_csv, combined_df, final_df, combine_result,
                  D1_AVERAGES, torvik_data, matchups_df, ingestVars, game_cards,
                  pipelineVars>>

\* Lines 75-81: a file is absent, predict_games returns None.
PredictLoadFails ==
    /\ predict_pc = "start"
    /\ ~torvik_data.exists \/ ~matchups_df.exists
    /\ predict_pc' = "None"
    /\ UNCHANGED <<predictions, skipped, game_idx, torvik_csv>>
    /\ UNCHANGED predictFrame

\* Lines 75-86.
PredictLoad ==
    /\ predict_pc = "start"
    /\ torvik_data.exists /\ matchups_df.exists
    /\ predictions' = <<>>
    /\ skipped' = <<>>
    /\ game_idx' = 1
    /\ predict_pc' = "loop"
    /\ UNCHANGED torvik_csv
    /\ UNCHANGED predictFrame

\* Lines 88-102: a team of the game has no rating row.
PredictSkipMissingZeroFill ==
    /\ predict_pc = "loop"
    /\ game_idx <= Len(matchups_df.rows)
    /\ TeamMissing(torvik_data, matchups_df.rows[game_idx])
    /\ predictions' = Append(predictions,
            [HomeTeam |-> matchups_df.rows[game_idx].home_team,
             AwayTeam |-> matchups_df.rows[game_idx].away_team,
             HomeScore |-> Num(0), AwayScore |-> Num(0)])
    /\ game_idx' = game_idx + 1
    /\ UNCHANGED <<skipped, predict_pc, torvik_csv>>
    /\ UNCHANGED predictFrame

PredictSkipMissing ==
    /\ predict_pc = "loop"
    /\ game_idx <= Len(matchups_df.rows)
    /\ TeamMissing(torvik_data, matchups_df.rows[game_idx])
    /\ skipped' = Append(skipped,
            [home |-> matchups_df.rows[game_idx].home_team,
             away |-> matchups_df.rows[game_idx].away_team, error |-> FALSE])
    /\ game_idx' = game_idx + 1
    /\ UNCHANGED <<predictions, predict_pc, torvik_csv>>
    /\ UNCHANGED predictFrame

\* Lines 104-118.
PredictRow ==
    /\ predict_pc = "loop"
    /\ game_idx <= Len(matchups_df.rows)
    /\ ~TeamMissing(torvik_data, matchups_df.rows[game_idx])
    /\ ~ScoreRaises(torvik_data, matchups_df.rows[game_idx])
    /\ predictions' = Append(predictions,
                             Prediction(torvik_data, matchups_df.rows[game_idx]))
    /\ game_idx' = game_idx + 1
    /\ UNCHANGED <<skipped, predict_pc, torvik_csv>>
    /\ UNCHANGED predictFrame

\* An except clause that records nothing for the game.
PredictErrorDropsGame ==
    /\ predict_pc = "loop"
    /\ game_idx <= Len(matchups_df.rows)
    /\ ~TeamMissing(torvik_data, matchups_df.rows[game_idx])
    /\ ScoreRaises(torvik_data, matchups_df.rows[game_idx])
    /\ game_idx' = game_idx + 1
    /\ UNCHANGED <<predictions, skipped, predict_pc, torvik_csv>>
    /\ UNCHANGED predictFrame

\* Lines 120-123.
PredictError ==
    /\ predict_pc = "loop"
    /\ game_idx <= Len(matchups_df.rows)
    /\ ~TeamMissing(torvik_data, matchups_df.rows[game_idx])
    /\ ScoreRaises(torvik_data, matchups_df.rows[game_idx])
    /\ skipped' = Append(skipped,
            [home |-> matchups_df.rows[game_idx].home_team,
             away |-> matchups_df.rows[game_idx].away_team, error |-> TRUE])
    /\ game_idx' = game_idx + 1
    /\ UNCHANGED <<predictions, predict_pc, torvik_csv>>
    /\ UNCHANGED predictFrame

\* Lines 125-138: the predictions are written to torvik_predictions.csv.
PredictSave ==
    /\ predict_pc = "loop"
    /\ game_idx > Len(matchups_df.rows)
    /\ torvik_csv' = [exists |-> TRUE, rows |-> predictions]
    /\ predict_pc' = "done"
    /\ UNCHANGED <<predictions, skipped, game_idx>>
    /\ UNCHANGED predictFrame

predict_games ==
    \/ PredictLoadFails
    \/ PredictLoad
    \/ PredictSkipMissing
    \/ PredictRow
    \/ PredictError
    \/ PredictSave

InitPredict ==
    /\ CombineIdle
    /\ IngestIdle
    /\ PipelineIdle
    /\ torvik_csv = NoFile
    /\ D1_AVERAGES = D1_AVERAGES_Init
    /\ torvik_data \in RatingFiles
    /\ matchups_df \in MatchupFiles
    /\ predictions = <<>>
    /\ skipped = <<>>
    /\ game_idx = 1
    /\ predict_pc = "start"

NextPredict == predict_games

SpecPredict == InitPredict /\ [][NextPredict]_vars

(***************************************************************************)
(* Claims about the Efficiency Score Model (checked under SpecPredict).    *)
(***************************************************************************)
Rated(t) == \E i \in 1..Len(torvik_data.rows) : torvik_data.rows[i].Team = t
RatingOf(t) ==
    torvik_data.rows[CHOOSE i \in 1..Len(torvik_data.rows) :
        /\ torvik_data.rows[i].Team = t
        /\ \A j \in 1..(i - 1) : torvik_data.rows[j].Team # t]
SameRatings(h, a) ==
    /\ RatingOf(h).AdjO = RatingOf(a).AdjO
    /\ RatingOf(h).AdjD = RatingOf(a).AdjD
    /\ RatingOf(h).AdjT = RatingOf(a).AdjT
NumericHca(t) == RatingOf(t).HCA.kind = "num"

\* The reference formula, with LEAGUE_AVG_TEMPO = 67.6 and
\* LEAGUE_AVG_DEF_EFFICIENCY = 110.3.
RefTempo(h, a) ==
    FlDiv(FlMul(FromTenths(RatingOf(h).AdjT), FromTenths(RatingOf(a).AdjT)),
          FromTenths(676))
RefPoints(off, def, h, a) ==
    FlDiv(FlMul(FlMul(FromTenths(RatingOf(off).AdjO), FromTenths(RatingOf(def).AdjD)),
                RefTempo(h, a)),
          FlMul(FromTenths(1103), FromInt(100)))

\* C5: for every pair of rated teams and every neutral_site value the
\* projected scores equal the reference formula: the home score is
\* home.AdjO * away.AdjD * tempo / (110.3 * 100), plus home.HCA only when the
\* site is not neutral; the away score is away.AdjO * home.AdjD * tempo /
\* (110.3 * 100) without HCA; both use tempo = home.AdjT * away.AdjT / 67.6;
\* and the two league constants keep their values.
C5_ReferenceFormula ==
    /\ D1_AVERAGES = [tempo |-> 676, def_efficiency |-> 1103]
    /\ \A h \in Teams, a \in Teams :
        (Rated(h) /\ Rated(a)) =>
            /\ calculate_tempo(torvik_data, h, a) = RefTempo(h, a)
            /\ calculate_home_score(torvik_data, h, a, TRUE) = RefPoints(h, a, h, a)
            /\ NumericHca(h) =>
                 calculate_home_score(torvik_data, h, a, FALSE)
                    = FlAdd(RefPoints(h, a, h, a), FromTenths(RatingOf(h).HCA.v))
            /\ calculate_away_score(torvik_data, a, h) = RefPoints(a, h, h, a)

\* Two rated teams with different ratings, one game of them predicted at a
\* neutral site and one at the home team's site.
C5_Witness ==
    /\ predict_pc = "done"
    /\ Len(predictions) = 2
    /\ Len(matchups_df.rows) = 2
    /\ matchups_df.rows[1].neutral_site /\ ~matchups_df.rows[2].neutral_site
    /\ Rated("A") /\ Rated("B") /\ ~SameRatings("A", "B")

\* The exact value of (x - y - z) in units of 2^e, e the least exponent.
ExactDiff3(x, y, z, e) == Scaled(x, e) - Scaled(y, e) - Scaled(z, e)
Min3Exp(x, y, z) == MinExp(x, [m |-> 0, e |-> MinExp(y, z)])

\* The games of the slate processed so far that are played at the home
\* team's site by two rated teams with identical ratings, the home team's
\* HCA being a number.
HomeSiteTwinGames ==
    {j \in 1..(game_idx - 1) :
        LET g == matchups_df.rows[j]
        IN  /\ ~g.neutral_site
            /\ Rated(g.home_team) /\ Rated(g.away_team)
            /\ SameRatings(g.home_team, g.away_team)
            /\ NumericHca(g.home_team)}

\* C6 as stated: for two teams with identical offensive, defensive and tempo
\* ratings and neutral_site = false, calculate_home_score minus
\* calculate_away_score equals exactly the home team's HCA.
C6_DifferenceIsExactlyHCA ==
    predict_pc \in {"loop", "done"} =>
        \A j \in HomeSiteTwinGames :
            LET g == matchups_df.rows[j]
            IN  FlSub(calculate_home_score(torvik_data, g.home_team, g.away_team, FALSE),
                      calculate_away_score(torvik_data, g.away_team, g.home_team))
                    = FromTenths(RatingOf(g.home_team).HCA.v)

\* C6 as amended: the difference of the two projected scores equals the home
\* team's HCA up to the rounding of the one floating-point addition
\* score += hca: it differs from HCA by at most half a unit in the last
\* place of the home score.
C6_DifferenceIsHCAWithinRounding ==
    predict_pc \in {"loop", "done"} =>
        \A j \in HomeSiteTwinGames :
            LET g == matchups_df.rows[j]
                hs == calculate_home_score(torvik_data, g.home_team, g.away_team, FALSE)
                as == calculate_away_score(torvik_data, g.away_team, g.home_team)
                hca == FromTenths(RatingOf(g.home_team).HCA.v)
                e == Min3Exp(hs, as, hca)
            IN  2 * Abs(ExactDiff3(hs, as, hca, e)) <= Pow2(hs.e - e)

\* A game at the home team's site between two teams with identical ratings
\* has been predicted, the home team's HCA being 3.3.
C6_Witness ==
    /\ predict_pc = "done"
    /\ Len(predictions) >= 1
    /\ 1 \in HomeSiteTwinGames
    /\ RatingOf(matchups_df.rows[1].home_team).HCA = HcaNum(33)

\* C7: for two teams with identical ratings and neutral_site = true the
\* projected home score equals the projected away score, whatever the home
\* team's HCA is; the prediction row of such a game holds two equal scores.
C7_NeutralSiteEqualScores ==
    /\ \A h \in Teams, a \in Teams :
        (Rated(h) /\ Rated(a) /\ SameRatings(h, a)) =>
            calculate_home_score(torvik_data, h, a, TRUE)
                = calculate_away_score(torvik_data, a, h)
    /\ \A k \in 1..Len(predictions) :
        LET p == predictions[k]
        IN  (/\ SameRatings(p.HomeTeam, p.AwayTeam)
             /\ \A j \in 1..Len(matchups_df.rows) :
                  (matchups_df.rows[j].home_team = p.HomeTeam
                     /\ matchups_df.rows[j].away_team = p.AwayTeam)
                  => matchups_df.rows[j].neutral_site)
            => p.HomeScore = p.AwayScore

\* A neutral-site game between two teams with identical ratings has been
\* predicted, the home team's HCA not being the default.
C7_Witness ==
    /\ predict_pc = "done"
    /\ Len(matchups_df.rows) = 1
    /\ matchups_df.rows[1].neutral_site
    /\ Len(predictions) = 1
    /\ SameRatings(predictions[1].HomeTeam, predictions[1].AwayTeam)
    /\ RatingOf(predictions[1].HomeTeam).HCA # HcaNum(30)
    /\ predictions[1].HomeScore = predictions[1].AwayScore

\* C8: every matchup in which the home or the away team has no row in the
\* rating table yields no prediction row, is recorded in the skipped list,
\* and does not end the run: the loop goes on to the end of the slate and the
\* function returns None only for an absent file.
C8_MissingTeamSkipped ==
    /\ predict_pc \in {"loop", "done"} =>
        \A j \in 1..(game_idx - 1) :
            LET g == matchups_df.rows[j]
            IN  (~Rated(g.home_team) \/ ~Rated(g.away_team)) =>
                    /\ \E k \in 1..Len(skipped) :
                          skipped[k].home = g.home_team /\ skipped[k].away = g.away_team
                    /\ \A k \in 1..Len(predictions) :
                          ~(predictions[k].HomeTeam = g.home_team
                              /\ predictions[k].AwayTeam = g.away_team)
    /\ predict_pc = "done" =>
        /\ game_idx = Len(matchups_df.rows) + 1
        /\ torvik_csv = [exists |-> TRUE, rows |-> predictions]
    /\ predict_pc = "None" => (~torvik_data.exists \/ ~matchups_df.exists)

\* The first game of the slate has an unrated team and was skipped; the run
\* went on and predicted the second game.
C8_Witness ==
    /\ predict_pc = "done"
    /\ Len(matchups_df.rows) = 2
    /\ ~Rated(matchups_df.rows[1].away_team)
    /\ Len(skipped) = 1 /\ Len(predictions) = 1
    /\ predictions[1].HomeTeam = matchups_df.rows[2].home_team

\* The decimal t tenths is exactly the value of the float x.
ExactTenths(x, t) ==
    IF x.e >= 0 THEN t = 10 * x.m * Pow2(x.e) ELSE t * Pow2(-(x.e)) = 10 * x.m
\* The decimal t tenths is a one-decimal number nearest to the float x.
NearestTenths(x, t) ==
    IF x.e >= 0 THEN t = 10 * x.m * Pow2(x.e)
    ELSE 2 * Abs(t * Pow2(-(x.e)) - 10 * x.m) <= Pow2(-(x.e))

NewPrediction == predictions' # predictions /\ Len(predictions') = Len(predictions) + 1
GameHome(g) == calculate_home_score(torvik_data, g.home_team, g.away_team, g.neutral_site)
GameAway(g) == calculate_away_score(torvik_data, g.away_team, g.home_team)

\* C9 as stated: the Efficiency Score Model performs no rounding; the scores
\* of a prediction row are the unrounded values of the projection formula.
C9_ScoresUnrounded ==
    [][NewPrediction =>
        LET p == predictions'[Len(predictions')]
            g == matchups_df.rows[game_idx]
        IN  /\ ExactTenths(GameHome(g), Val(p.HomeScore))
            /\ ExactTenths(GameAway(g), Val(p.AwayScore))]_vars

\* C9 as amended: the Efficiency Score Model rounds each projected score to
\* one decimal place (never to a whole number): the scores of a prediction
\* row are the one-decimal numbers nearest to the values of the projection
\* formula, and these are the values written to torvik_predictions.csv.
C9_ScoresRoundedToOneDecimal ==
    [][NewPrediction =>
        LET p == predictions'[Len(predictions')]
            g == matchups_df.rows[game_idx]
        IN  /\ NearestTenths(GameHome(g), Val(p.HomeScore))
            /\ NearestTenths(GameAway(g), Val(p.AwayScore))]_vars

\* A game has been predicted whose projected home score is not a one-decimal
\* number: the stored score differs from the value of the formula.
C9_Witness ==
    /\ predict_pc = "done"
    /\ Len(matchups_df.rows) = 1 /\ Len(predictions) = 1
    /\ torvik_csv.rows = predictions
    /\ ~ExactTenths(GameHome(matchups_df.rows[1]), Val(predictions[1].HomeScore))
    /\ NearestTenths(GameHome(matchups_df.rows[1]), Val(predictions[1].HomeScore))

(***************************************************************************)
(* Team names and the mapping lookup.                                      *)
(*                                                                         *)
(* A team name is the sequence of its characters, so that the clean-up of  *)
(* haslametric_scrape.py and the ordering of sort_values are computed on   *)
(* the characters.  None (and the empty string) is the empty sequence.     *)
(***************************************************************************)
None == <<>>

\* The characters of the names of the model, in code-point order.
NameChars == <<" ", "5", "9", "D", "d", "e", "x", "z">>

CharRank(c) == CHOOSE i \in 1..Len(NameChars) : NameChars[i] = c

Digits == {"5", "9"}
Spaces == {" "}

\* Python's order of two strings.
RECURSIVE NameLess(_, _)
NameLess(a, b) ==
    IF a = <<>> THEN b # <<>>
    ELSE IF b = <<>> THEN FALSE
    ELSE IF a[1] = b[1] THEN NameLess(Tail(a), Tail(b))
    ELSE CharRank(a[1]) < CharRank(b[1])

\* sorted(names): the names of a set in increasing order.
RECURSIVE SortedNames(_)
SortedNames(S) ==
    IF S = {} THEN <<>>
    ELSE LET m == CHOOSE x \in S : \A y \in S \ {x} : NameLess(x, y)
         IN  <<m>> \o SortedNames(S \ {m})

\* team_mapping.py: the table of known spellings.  "D" is a source spelling
\* of the team whose canonical name is "d"; canonical names map to
\* themselves; "x", "z" and the names carrying a rank have no entry.
TEAM_MAPPING ==
    {<< <<"D">>, <<"d">> >>, << <<"d">>, <<"d">> >>, << <<"e">>, <<"e">> >>}

\* get_canonical_name: the canonical name of an exact match, else None.
get_canonical_name(name) ==
    IF \E m \in TEAM_MAPPING : m[1] = name
    THEN (CHOOSE m \in TEAM_MAPPING : m[1] = name)[2]
    ELSE None

Unmapped(name) == get_canonical_name(name) = None

\* str.rstrip(chars) and str.lstrip(chars).
RECURSIVE DropTrailing(_, _)
DropTrailing(chars, s) ==
    IF s # <<>> /\ s[Len(s)] \in chars
    THEN DropTrailing(chars, SubSeq(s, 1, Len(s) - 1))
    ELSE s

RECURSIVE DropLeading(_, _)
DropLeading(chars, s) ==
    IF s # <<>> /\ s[1] \in chars
    THEN DropLeading(chars, Tail(s))
    ELSE s

\* str.strip().
Strip(s) == DropLeading(Spaces, DropTrailing(Spaces, s))

\* haslametric_scrape.py lines 168-169:
\* re.sub(r'\s*\d+$', '', name).strip().  The leftmost match of \s*\d+$ is
\* the run of digits that ends the name together with the whitespace in
\* front of it; a name that does not end with a digit is only stripped.
CleanRankKeepsDigits(name) == Strip(name)

CleanRank(name) ==
    IF name # <<>> /\ name[Len(name)] \in Digits
    THEN Strip(DropTrailing(Spaces, DropTrailing(Digits, name)))
    ELSE Strip(name)

(***************************************************************************)
(* fetch_daily_games.py: the schedule.                                     *)
(***************************************************************************)
\* The games ESPN may list (lines 108-118): raw ESPN names, home before away.
EspnGames ==
    {[home_team |-> <<"D">>, away_team |-> <<"x">>, neutral_site |-> FALSE],
     [home_team |-> <<"x">>, away_team |-> <<"e">>, neutral_site |-> TRUE],
     [home_team |-> <<"e">>, away_team |-> <<"D">>, neutral_site |-> FALSE]}

\* The parsed response: no game (also a failed request, lines 124-126 and
\* 139-146) or up to MaxGames games.
EspnResponses == UNION {[1..n -> EspnGames] : n \in 0..MaxGames}

\* Lines 158-174, one name: the canonical name, else the name itself.
NormalizedOrRaw(name) ==
    IF get_canonical_name(name) # None THEN get_canonical_name(name) ELSE name

\* Lines 154-174: the frame with both names of every row normalized.
normalize_team_names(df) ==
    [i \in 1..Len(df) |->
        [df[i] EXCEPT !.home_team = NormalizedOrRaw(df[i].home_team),
                      !.away_team = NormalizedOrRaw(df[i].away_team)]]

\* Lines 152-180: the names printed as unmapped, sorted(set(unmapped_teams)).
UnmappedReport(names) == SortedNames({n \in names : Unmapped(n)})

ScheduleNames(df) ==
    {df[i].home_team : i \in 1..Len(df)} \cup {df[i].away_team : i \in 1..Len(df)}

ingestFrame == <<kenpom_csv, torvik_csv, combined_df, final_df, combine_result,
                 D1_AVERAGES, predictions, skipped, game_idx, predict_pc,
                 logoVars, game_cards, pipelineVars>>

\* main (lines 213-239) with fetch_daily_matchups: an empty frame writes no
\* file; otherwise the normalized frame is written to daily_matchups.csv.
FetchDailyGames ==
    /\ ingest_pc = "start"
    /\ \E events \in EspnResponses :
        /\ espn_events' = events
        /\ IF events = <<>>
           THEN UNCHANGED <<matchups_df, unmapped_report>>
           ELSE /\ matchups_df' = [exists |-> TRUE,
                                   rows |-> normalize_team_names(events)]
                /\ unmapped_report' =
                        [unmapped_report EXCEPT
                            !.schedule = UnmappedReport(ScheduleNames(events))]
    /\ ingest_pc' = "scheduled"
    /\ UNCHANGED <<kenpom_raw, torvik_raw, haslam_raw, kenpom_data, torvik_data,
                   haslam_csv>>
    /\ UNCHANGED ingestFrame

(***************************************************************************)
(* kenpom_fetch.py and torvik_scrape.py: the rating tables.                *)
(***************************************************************************)
\* A row of a ratings response: the raw name and three cells.
RawRating(name, o, d, t) == [Team |-> name, AdjO |-> o, AdjD |-> d, AdjT |-> t]

\* The rows the Kenpom API may list, in the order of the response: a mapped
\* source spelling, a name without a mapping entry and a canonical name
\* that kenpomHCA.csv does not list, with a tempo that is not a number.
KenpomApiRows ==
    <<RawRating(<<"D">>, Num(1152), Num(987), Num(684)),
      RawRating(<<"x">>, Num(1049), Num(1013), Num(712)),
      RawRating(<<"e">>, Num(1049), Num(1013), NaN)>>

\* The rows the Torvik feed may list; the last one has a cell that
\* to_numeric coerces to NaN.
TorvikApiRows ==
    <<RawRating(<<"D">>, Num(1152), Num(987), Num(684)),
      RawRating(<<"x">>, Num(1049), Num(1013), Num(712)),
      RawRating(<<"e">>, Num(1049), Num(1013), NaN)>>

RowsOf(apiRows, names) ==
    LET Listed(r) == r.Team \in names
    IN  SelectSeq(apiRows, Listed)

ApiNames(apiRows) == {apiRows[i].Team : i \in 1..Len(apiRows)}

\* A response: the request fails, or it lists each team at most once.
Responses(apiRows) ==
    {NoResponse} \cup
    {[ok |-> TRUE, rows |-> RowsOf(apiRows, names)] :
        names \in SUBSET ApiNames(apiRows)}

\* kenpomHCA.csv: the home-court advantage of the teams it lists (tenths).
kenpomHCA == {[Team |-> <<"d">>, HCA |-> 33]}

HcaNaN == [kind |-> "nan", v |-> 0]

\* df.merge(hca_df, on='Team', how='left'): the HCA cell of a team.
MergedHca(team) ==
    IF \E h \in kenpomHCA : h.Team = team
    THEN HcaNum((CHOOSE h \in kenpomHCA : h.Team = team).HCA)
    ELSE HcaNaN

\* df['HCA'].fillna(3.0) (torvik_scrape.py line 81).
FillHca(cell) == IF cell.kind = "nan" THEN HcaNum(30) ELSE cell

\* sort_values('Team') (a team is listed once, so no two keys are equal).
RECURSIVE InsertByTeam(_, _)
InsertByTeam(row, sorted) ==
    IF sorted = <<>> THEN <<row>>
    ELSE IF NameLess(row.Team, sorted[1].Team) THEN <<row>> \o sorted
    ELSE <<sorted[1]>> \o InsertByTeam(row, Tail(sorted))

RECURSIVE SortByTeam(_)
SortByTeam(rows) ==
    IF rows = <<>> THEN <<>>
    ELSE InsertByTeam(rows[Len(rows)], SortByTeam(SubSeq(rows, 1, Len(rows) - 1)))

\* teams_playing (kenpom_fetch.py line 34, torvik_scrape.py line 28).
teams_playing == ScheduleNames(matchups_df.rows)

Playing(row) == row.Team \in teams_playing

\* kenpom_fetch.py lines 61-64: the name is replaced whenever the lookup
\* returns something else than the name, None included.
KenpomKey(original) ==
    IF get_canonical_name(original) # original
    THEN get_canonical_name(original)
    ELSE original

\* torvik_scrape.py lines 60-63: the name is replaced only by a canonical
\* name.
TorvikKey(original) ==
    IF get_canonical_name(original) # None /\ get_canonical_name(original) # original
    THEN get_canonical_name(original)
    ELSE original

\* kenpom_fetch.py lines 49-88: normalize, keep the teams playing, sort,
\* merge the HCA column (not filled).
fetch_kenpom_data_for_today(rows) ==
    LET named == [i \in 1..Len(rows) |->
                    [rows[i] EXCEPT !.Team = KenpomKey(rows[i].Team)]]
        sorted == SortByTeam(SelectSeq(named, Playing))
    IN  [i \in 1..Len(sorted) |->
            [Team |-> sorted[i].Team, AdjO |-> sorted[i].AdjO,
             AdjD |-> sorted[i].AdjD, AdjT |-> sorted[i].AdjT,
             HCA |-> MergedHca(sorted[i].Team)]]

\* df.dropna() (torvik_scrape.py line 53).
Complete(row) ==
    /\ row.Team # None
    /\ ~IsNa(row.AdjO) /\ ~IsNa(row.AdjD) /\ ~IsNa(row.AdjT)

\* torvik_scrape.py lines 42-87: drop incomplete rows, normalize, keep the
\* teams playing, sort, merge the HCA column and fill it with 3.0.
fetch_torvik_data_for_today(rows) ==
    LET full == SelectSeq(rows, Complete)
        named == [i \in 1..Len(full) |->
                    [full[i] EXCEPT !.Team = TorvikKey(full[i].Team)]]
        sorted == SortByTeam(SelectSeq(named, Playing))
    IN  [i \in 1..Len(sorted) |->
            RatingRow(sorted[i].Team,
                      <<Val(sorted[i].AdjO), Val(sorted[i].AdjD), Val(sorted[i].AdjT)>>,
                      FillHca(MergedHca(sorted[i].Team)))]

\* kenpom_fetch.py main: without daily_matchups.csv no request is made
\* (lines 27-30); a failed request writes no file (lines 90-92, 98-100).
FetchKenpom ==
    /\ ingest_pc = "scheduled"
    /\ IF ~matchups_df.exists
       THEN UNCHANGED <<kenpom_raw, kenpom_data>>
       ELSE \E resp \in Responses(KenpomApiRows) :
                /\ kenpom_raw' = resp
                /\ IF resp.ok
                   THEN kenpom_data' =
                            [exists |-> TRUE,
                             rows |-> fetch_kenpom_data_for_today(resp.rows)]
                   ELSE UNCHANGED kenpom_data
    /\ ingest_pc' = "kenpom"
    /\ UNCHANGED <<espn_events, torvik_raw, haslam_raw, unmapped_report,
                   matchups_df, torvik_data, haslam_csv>>
    /\ UNCHANGED ingestFrame

\* torvik_scrape.py main, as kenpom_fetch.py main.
FetchTorvik ==
    /\ ingest_pc = "kenpom"
    /\ IF ~matchups_df.exists
       THEN UNCHANGED <<torvik_raw, torvik_data>>
       ELSE \E resp \in Responses(TorvikApiRows) :
                /\ torvik_raw' = resp
                /\ IF resp.ok
                   THEN torvik_data' =
                            [exists |-> TRUE, has_hca |-> TRUE,
                             rows |-> fetch_torvik_data_for_today(resp.rows)]
                   ELSE UNCHANGED torvik_data
    /\ ingest_pc' = "torvik"
    /\ UNCHANGED <<espn_events, kenpom_raw, haslam_raw, kenpom_data,
                   unmapped_report, matchups_df, haslam_csv>>
    /\ UNCHANGED ingestFrame

(***************************************************************************)
(* haslametric_scrape.py: the predictions of the Haslametrics page.        *)
(***************************************************************************)
\* The complete games the page may list (lines 129-136); a name may carry
\* the team's rank.
HaslamGames ==
    {[home_team |-> <<"d", " ", "5">>, away_team |-> <<"x", " ", "9">>,
      home_score |-> 740, away_score |-> 690],
     [home_team |-> <<"x">>, away_team |-> <<"D">>,
      home_score |-> 740, away_score |-> 690],
     [home_team |-> <<"e">>, away_team |-> <<"x", " ", "9">>,
      home_score |-> 740, away_score |-> 690],
     [home_team |-> <<"e", " ", " ", "5">>, away_team |-> <<"x", "9", "5">>,
      home_score |-> 740, away_score |-> 690]}

HaslamPages == UNION {[1..n -> HaslamGames] : n \in 0..MaxGames}

\* Lines 166-187, one name: the rank is removed, then the canonical name of
\* the cleaned name is taken, else the cleaned name.
HaslamKey(name) == NormalizedOrRaw(CleanRank(name))

\* Lines 142-150 with the columns as combine_predictions.py names them
\* (lines 32-37 there).
haslam_normalize_team_names(df) ==
    [i \in 1..Len(df) |->
        PredRow(<<HaslamKey(df[i].home_team), HaslamKey(df[i].away_team)>>,
                <<Num(df[i].home_score), Num(df[i].away_score)>>)]

\* main (lines 198-227): no game (or an exception) writes no file.
ScrapeHaslam ==
    /\ ingest_pc = "torvik"
    /\ \E games \in HaslamPages :
        /\ haslam_raw' = games
        /\ IF games = <<>>
           THEN UNCHANGED <<haslam_csv, unmapped_report>>
           ELSE /\ haslam_csv' = [exists |-> TRUE,
                                  rows |-> haslam_normalize_team_names(games)]
                /\ unmapped_report' =
                        [unmapped_report EXCEPT
                            !.haslam = UnmappedReport(
                                {CleanRank(n) : n \in ScheduleNames(games)})]
    /\ ingest_pc' = "done"
    /\ UNCHANGED <<espn_events, kenpom_raw, torvik_raw, kenpom_data,
                   matchups_df, torvik_data>>
    /\ UNCHANGED ingestFrame

(***************************************************************************)
(* espn_logo_mapping.py: the logo table.                                   *)
(***************************************************************************)
\* The team objects ESPN may list (lines 31-37): an id and a display name.
\* Two objects may carry the same display name.
EspnTeamObjects ==
    {[id |-> 1, displayName |-> <<"D">>],
     [id |-> 2, displayName |-> <<"x">>],
     [id |-> 3, displayName |-> <<"x">>]}

EspnTeamLists == UNION {[1..n -> EspnTeamObjects] : n \in 0..MaxGames}

\* sorted(list): the names of a list in increasing order, repeats kept.
RECURSIVE InsertName(_, _)
InsertName(name, sorted) ==
    IF sorted = <<>> THEN <<name>>
    ELSE IF NameLess(name, sorted[1]) THEN <<name>> \o sorted
    ELSE <<sorted[1]>> \o InsertName(name, Tail(sorted))

RECURSIVE SortedNameList(_)
SortedNameList(names) ==
    IF names = <<>> THEN <<>>
    ELSE InsertName(names[Len(names)],
                    SortedNameList(SubSeq(names, 1, Len(names) - 1)))

\* Lines 22-58: unmapped_teams, one entry per team object without a mapping.
LogoUnmapped(teams) ==
    LET NoMapping(t) == Unmapped(t.displayName)
    IN  [i \in 1..Len(SelectSeq(teams, NoMapping)) |->
            SelectSeq(teams, NoMapping)[i].displayName]

\* Lines 42-67: the dict team_logos; a later object of the same key
\* replaces an earlier one.
LogoEntries(teams) ==
    {[name |-> NormalizedOrRaw(teams[i].displayName),
      espn_name |-> teams[i].displayName, id |-> teams[i].id] :
        i \in {j \in 1..Len(teams) :
                \A k \in (j + 1)..Len(teams) :
                    NormalizedOrRaw(teams[k].displayName)
                        # NormalizedOrRaw(teams[j].displayName)}}

\* fetch_all_cbb_teams (lines 10-100), run on its own.
FetchLogos ==
    /\ ingest_pc = "start"
    /\ \E teams \in EspnTeamLists :
        /\ espn_teams' = teams
        /\ team_logos' = [exists |-> TRUE, entries |-> LogoEntries(teams)]
        /\ logo_report' = SortedNameList(LogoUnmapped(teams))
    /\ ingest_pc' = "logos"
    /\ UNCHANGED <<espn_events, kenpom_raw, torvik_raw, haslam_raw, kenpom_data,
                   unmapped_report, matchups_df, torvik_data, haslam_csv>>
    /\ UNCHANGED <<kenpom_csv, torvik_csv, combined_df, final_df, combine_result,
                   D1_AVERAGES, predictions, skipped, game_idx, predict_pc,
                   game_cards>>
    /\ UNCHANGED pipelineVars

InitIngest ==
    /\ CombineIdle
    /\ torvik_csv = NoFile
    /\ PredictIdle
    /\ IngestIdle
    /\ PipelineIdle

NextIngest ==
    FetchDailyGames \/ FetchKenpom \/ FetchTorvik \/ ScrapeHaslam \/ FetchLogos

SpecIngest == InitIngest /\ [][NextIngest]_vars

(***************************************************************************)
(* Properties of the ingestion steps.                                      *)
(***************************************************************************)
ScheduleDone == ingest_pc # "start" /\ espn_events # <<>>
KenpomDone == ingest_pc \in {"kenpom", "torvik", "done"} /\ kenpom_raw.ok
TorvikDone == ingest_pc \in {"torvik", "done"} /\ torvik_raw.ok
HaslamDone == ingest_pc = "done" /\ haslam_raw # <<>>

HasTeam(rows, name) == \E j \in 1..Len(rows) : rows[j].Team = name

\* The schedule keeps the raw name of an unmapped team.
ScheduleKeepsRawName ==
    ScheduleDone =>
        \A i \in 1..Len(espn_events) :
            /\ Unmapped(espn_events[i].home_team) =>
                    matchups_df.rows[i].home_team = espn_events[i].home_team
            /\ Unmapped(espn_events[i].away_team) =>
                    matchups_df.rows[i].away_team = espn_events[i].away_team

\* The Kenpom table keeps, under its raw name, every unmapped team that
\* plays today.
KenpomKeepsRawName ==
    KenpomDone =>
        \A i \in 1..Len(kenpom_raw.rows) :
            LET name == kenpom_raw.rows[i].Team
            IN  Unmapped(name) /\ name \in teams_playing =>
                    HasTeam(kenpom_data.rows, name)

\* The Torvik table keeps, under its raw name, every unmapped team that
\* plays today and has all three ratings.
TorvikKeepsRawName ==
    TorvikDone =>
        \A i \in 1..Len(torvik_raw.rows) :
            LET name == torvik_raw.rows[i].Team
            IN  Unmapped(name) /\ name \in teams_playing
                    /\ Complete(torvik_raw.rows[i]) =>
                    HasTeam(torvik_data.rows, name)

\* The Haslametrics table keeps the name handed to the lookup (the scraped
\* name without its rank) of an unmapped team.
HaslamKeepsLookedUpName ==
    HaslamDone =>
        \A i \in 1..Len(haslam_raw) :
            /\ Unmapped(CleanRank(haslam_raw[i].home_team)) =>
                    haslam_csv.rows[i].HomeTeam = CleanRank(haslam_raw[i].home_team)
            /\ Unmapped(CleanRank(haslam_raw[i].away_team)) =>
                    haslam_csv.rows[i].AwayTeam = CleanRank(haslam_raw[i].away_team)

\* C10: for a team name for which the mapping lookup finds no canonical
\* identity, at every ingestion step (schedule, Kenpom ratings, Torvik
\* ratings, Haslametrics predictions) the key kept in the resulting table
\* equals the name looked up; the row is neither dropped nor given an empty
\* key.
C10_UnmappedNameKeptAtEveryStep ==
    /\ ScheduleKeepsRawName
    /\ KenpomKeepsRawName
    /\ TorvikKeepsRawName
    /\ HaslamKeepsLookedUpName

\* An unmapped team of the slate is listed by the Torvik feed and by the
\* Haslametrics page, and both steps have run.
IngestWitness ==
    /\ ingest_pc = "done"
    /\ <<"x">> \in teams_playing
    /\ TorvikDone /\ HasTeam(torvik_data.rows, <<"x">>)
    /\ HaslamDone /\ haslam_csv.rows[1].AwayTeam = <<"x">>

\* How many times a name is printed in a report.
Times(report, name) == Cardinality({i \in 1..Len(report) : report[i] = name})

\* The reports printed during the run, one after the other.
RunReports == unmapped_report.schedule \o unmapped_report.haslam \o logo_report

\* The unmapped names the steps of the run have met.
UnmappedMet ==
    {n \in ScheduleNames(espn_events)
            \cup ApiNames(kenpom_raw.rows) \cup ApiNames(torvik_raw.rows)
            \cup {CleanRank(h) : h \in ScheduleNames(haslam_raw)}
            \cup {espn_teams[i].displayName : i \in 1..Len(espn_teams)} :
        Unmapped(n)}

\* C11: within one run, every unmapped team name met by an ingestion step
\* is reported exactly once.
C11_UnmappedReportedExactlyOnce ==
    ingest_pc \in {"done", "logos"} =>
        \A n \in UnmappedMet : Times(RunReports, n) = 1

\* Within the schedule step and within the Haslametrics step, each unmapped
\* name of the step is printed exactly once by that step.
StepReportsOnce ==
    /\ ScheduleDone =>
        \A n \in ScheduleNames(espn_events) :
            Times(unmapped_report.schedule, n) = (IF Unmapped(n) THEN 1 ELSE 0)
    /\ HaslamDone =>
        \A n \in {CleanRank(h) : h \in ScheduleNames(haslam_raw)} :
            Times(unmapped_report.haslam, n) = (IF Unmapped(n) THEN 1 ELSE 0)

(***************************************************************************)
(* Properties of the game cards.                                           *)
(***************************************************************************)
\* C12: on a card with two numeric consensus scores a side is marked as
\* the winner only when its score is strictly the higher one; with equal
\* scores neither side is marked.
C12_TieHasNoWinner ==
    game_cards.status = "done" =>
        \A i \in 1..Len(game_cards.cards) :
            LET c == game_cards.cards[i]
            IN  ~IsNa(c.home_score) /\ ~IsNa(c.away_score) =>
                    /\ c.home_color = "red" => Val(c.home_score) > Val(c.away_score)
                    /\ c.away_color = "red" => Val(c.away_score) > Val(c.home_score)

\* The home side is marked exactly when its score is strictly the higher
\* one, and exactly one side of every card is marked.
HomeMarkedOnlyWhenAhead ==
    game_cards.status = "done" =>
        \A i \in 1..Len(game_cards.cards) :
            LET c == game_cards.cards[i]
            IN  /\ c.home_color = "red" <=>
                        HomeWinning(c.home_score, c.away_score)
                /\ c.away_color = "red" <=> c.home_color = "black"

(***************************************************************************)
(* Properties of the combine step with absent or empty sources.            *)
(***************************************************************************)
Present(file) == file.exists /\ file.rows # <<>>

\* C13: when the Torvik or the Haslametrics prediction table is absent and
\* the other tables hold predictions, the combine step yields consensus
\* predictions from the sources that are present.
C13_AbsentSourceStillCombined ==
    /\ combine_result # "pending"
    /\ Present(kenpom_csv)
    /\ ~torvik_csv.exists \/ ~haslam_csv.exists
    /\ torvik_csv.exists => Present(torvik_csv)
    /\ haslam_csv.exists => Present(haslam_csv)
    => /\ combine_result = "returned"
       /\ final_df # <<>>

\* A consensus is only ever produced from three tables that are all on disk
\* and all hold rows.
ConsensusNeedsAllThree ==
    combine_result = "returned" =>
        Present(kenpom_csv) /\ Present(torvik_csv) /\ Present(haslam_csv)

\* C14: when every source's prediction table is empty, combine_predictions
\* returns a value to its caller and raises no exception.
C14_EmptyDayReturnsEmptyResult ==
    /\ combine_result # "pending"
    /\ kenpom_csv.rows = <<>> /\ torvik_csv.rows = <<>> /\ haslam_csv.rows = <<>>
    => combine_result \in {"None", "returned"}

\* The only exception that leaves combine_predictions is the one raised by
\* reading a table that was written without a row.
RaisesOnlyOnEmptyTable ==
    combine_result = "raised" =>
        \E f \in {kenpom_csv, torvik_csv, haslam_csv} : f.exists /\ f.rows = <<>>

(***************************************************************************)
(* Properties of the rating tables.                                        *)
(***************************************************************************)
NumericHcaColumn(rows) == \A i \in 1..Len(rows) : rows[i].HCA.kind = "num"

\* C15: every row of the Kenpom and of the Torvik rating table has a
\* numeric HCA, the default 3.0 standing in for a team without HCA entry.
C15_EveryRatingHasNumericHCA ==
    /\ KenpomDone => NumericHcaColumn(kenpom_data.rows)
    /\ TorvikDone => NumericHcaColumn(torvik_data.rows)

\* The Torvik table alone: every HCA is a number, 3.0 for a team that
\* kenpomHCA.csv does not list.
TorvikHcaFilled ==
    TorvikDone =>
        \A i \in 1..Len(torvik_data.rows) :
            LET row == torvik_data.rows[i]
            IN  /\ row.HCA.kind = "num"
                /\ MergedHca(row.Team).kind = "nan" => row.HCA = HcaNum(30)

(***************************************************************************)
(* Properties of the merge.                                                *)
(***************************************************************************)
OneRowPerMatchup(rows) ==
    \A i, j \in 1..Len(rows) : SameKey(rows[i], rows[j]) => i = j

\* C16: the combined output holds at most one consensus row per (home
\* team, away team) matchup, whatever the number of rows a source's table
\* holds for the pair.
C16_OneConsensusRowPerMatchup ==
    combine_result = "returned" => OneRowPerMatchup(final_df)

\* When no table lists a matchup twice, the output lists none twice.
UniqueKeysPreserved ==
    /\ combine_result = "returned"
    /\ OneRowPerMatchup(kenpom_csv.rows)
    /\ OneRowPerMatchup(torvik_csv.rows)
    /\ OneRowPerMatchup(haslam_csv.rows)
    => OneRowPerMatchup(final_df)

(***************************************************************************)
(* Properties of the Haslametrics name clean-up.                           *)
(***************************************************************************)
\* name is base, then spaces (possibly none), then one or more digits, and
\* base ends neither with a digit nor with a space.
IsRankForm(name, base) ==
    \E i \in 0..(Len(name) - 1) :
        \E j \in i..(Len(name) - 1) :
            /\ base = SubSeq(name, 1, i)
            /\ \A k \in (i + 1)..j : name[k] \in Spaces
            /\ \A k \in (j + 1)..Len(name) : name[k] \in Digits
            /\ i > 0 => name[i] \notin (Digits \cup Spaces)

Prefixes(name) == {SubSeq(name, 1, i) : i \in 0..Len(name)}

\* The key under which a scraped name is looked up, as the claim gives it.
LookedUpAs(name, key) ==
    /\ \A base \in Prefixes(name) : IsRankForm(name, base) => key = base
    /\ (name # <<>> /\ name[Len(name)] \notin Digits) => key = name

\* C17: a scraped name of the form <name><optional spaces><digits> is
\* looked up as <name>, a name without such a token is looked up unchanged:
\* the key kept for it is the canonical name of that lookup key, or the
\* lookup key itself when it has no mapping.
C17_RankTokenStripped ==
    HaslamDone =>
        \A i \in 1..Len(haslam_raw) :
            /\ \E key \in Prefixes(haslam_raw[i].home_team) :
                /\ LookedUpAs(haslam_raw[i].home_team, key)
                /\ haslam_csv.rows[i].HomeTeam = NormalizedOrRaw(key)
            /\ \E key \in Prefixes(haslam_raw[i].away_team) :
                /\ LookedUpAs(haslam_raw[i].away_team, key)
                /\ haslam_csv.rows[i].AwayTeam = NormalizedOrRaw(key)

\* The page lists "d 5" as a home team and "x95" as an away team, and the
\* table holds them as "d" (the canonical name) and "x" (no mapping).
C17_Witness ==
    /\ HaslamDone
    /\ \E i \in 1..Len(haslam_raw) :
        /\ haslam_raw[i].home_team = <<"d", " ", "5">>
        /\ haslam_csv.rows[i].HomeTeam = <<"d">>
    /\ \E i \in 1..Len(haslam_raw) :
        /\ haslam_raw[i].away_team = <<"x", "9", "5">>
        /\ haslam_csv.rows[i].AwayTeam = <<"x">>

(***************************************************************************)
(* Properties of the rating values.                                        *)
(***************************************************************************)
Malformed(row) == IsNa(row.AdjO) \/ IsNa(row.AdjD) \/ IsNa(row.AdjT)

\* C18: a team whose rating record holds a value that is not a number is
\* absent from the rating table, for each rating source.
C18_MalformedRatingAbsent ==
    /\ KenpomDone =>
        \A i \in 1..Len(kenpom_raw.rows) :
            Malformed(kenpom_raw.rows[i]) =>
                ~HasTeam(kenpom_data.rows, KenpomKey(kenpom_raw.rows[i].Team))
    /\ TorvikDone =>
        \A i \in 1..Len(torvik_raw.rows) :
            Malformed(torvik_raw.rows[i]) =>
                ~HasTeam(torvik_data.rows, TorvikKey(torvik_raw.rows[i].Team))

\* The Torvik table alone holds no team with a malformed rating.
TorvikDropsMalformed ==
    TorvikDone =>
        \A i \in 1..Len(torvik_raw.rows) :
            Malformed(torvik_raw.rows[i]) =>
                ~HasTeam(torvik_data.rows, TorvikKey(torvik_raw.rows[i].Team))

(***************************************************************************)
(* run_all.py: the pipeline.                                               *)
(*                                                                         *)
(* Here a file is known by the run that wrote it (made, 0 when the file is *)
(* not on disk) and by the oldest run that produced one of the rating or   *)
(* prediction tables it was computed from (oldest).  No script deletes an  *)
(* input or output file; only the predictions folder is cleared.           *)
(***************************************************************************)
LastStep == 8

\* Lines 62-119: a failure of one of these steps is only warned about.
WarnOnlySteps == {4, 5, 6}

OnDisk(file) == file.made > 0

MinOf(S) == CHOOSE m \in S : \A x \in S : m <= x

\* A file written in run r from the tables read.
Stamp(r, tables) == [made |-> r, oldest |-> MinOf({r} \cup {t.oldest : t \in tables})]

\* What a script that runs to its end leaves on disk.  remote_ok: the
\* remote source answered with data.  A script that misses an input, or
\* whose source gives nothing, reports it and writes no file.
\*  1 fetch_daily_games.py (main, lines 231-237)
\*  2 kenpom_fetch.py (lines 27-30, 90-104), 4 torvik_scrape.py
\*  3 kenpom_game_output.py (not in the repository's src/; as step 5)
\*  5 torvik_game_output.py (predict_games, lines 75-81, 133)
\*  6 haslametric_scrape.py (main, lines 218-227)
\*  7 combine_predictions.py (lines 23-25, 100, 114-117)
\*  8 game_card_generator.py (main, lines 287-349)
ScriptEffect(step, d, r, remote_ok) ==
    CASE step = 1 ->
            IF remote_ok THEN [d EXCEPT !.matchups = Stamp(r, {})] ELSE d
      [] step = 2 ->
            IF OnDisk(d.matchups) /\ remote_ok
            THEN [d EXCEPT !.kenpom_data = Stamp(r, {})] ELSE d
      [] step = 3 ->
            IF OnDisk(d.kenpom_data) /\ OnDisk(d.matchups)
            THEN [d EXCEPT !.kenpom_pred = Stamp(r, {d.kenpom_data})] ELSE d
      [] step = 4 ->
            IF OnDisk(d.matchups) /\ remote_ok
            THEN [d EXCEPT !.torvik_data = Stamp(r, {})] ELSE d
      [] step = 5 ->
            IF OnDisk(d.torvik_data) /\ OnDisk(d.matchups)
            THEN [d EXCEPT !.torvik_pred = Stamp(r, {d.torvik_data})] ELSE d
      [] step = 6 ->
            IF remote_ok THEN [d EXCEPT !.haslam_pred = Stamp(r, {})] ELSE d
      [] step = 7 ->
            IF OnDisk(d.kenpom_pred) /\ OnDisk(d.torvik_pred) /\ OnDisk(d.haslam_pred)
            THEN [d EXCEPT !.combined =
                    Stamp(r, {d.kenpom_pred, d.torvik_pred, d.haslam_pred})]
            ELSE d
      [] step = 8 ->
            IF OnDisk(d.combined) /\ OnDisk(d.matchups)
            THEN [d EXCEPT !.cards = Stamp(r, {d.combined})] ELSE d

\* clear_predictions_folder (lines 37-48), called before step 8 (line 113).
BeforeStep(step, d) == IF step = LastStep THEN [d EXCEPT !.cards = Absent] ELSE d

\* A main in which a failure of step 5 ends the run.
StepAfterStrict(step, ok) ==
    IF step = LastStep THEN 0
    ELSE IF ok \/ step \in {4, 6} THEN step + 1
    ELSE 0

\* Lines 63-119: where main goes after run_script returned ok for a step.
StepAfter(step, ok) ==
    IF step = LastStep THEN 0
    ELSE IF ok \/ step \in WarnOnlySteps THEN step + 1
    ELSE 0

\* A main that prints the summary after any result of the last step.
CompleteAfterAnyResult(step, ok) == step = LastStep

\* Lines 115-123: the summary is reached when run_script returned True for
\* the last step.
CompleteAfter(step, ok) == step = LastStep /\ ok

\* Line 113: clear_predictions_folder is called when main reaches step 8.
ClearedBy(step) == step = LastStep

pipelineFrame == <<kenpom_csv, torvik_csv, haslam_csv, combined_df, final_df,
                   combine_result, game_cards, predictVars, ingestVars>>

\* run_script (lines 14-35) for the next step of main, the script running
\* to its end: exit code 0, run_script returns True.
RunScriptOk ==
    /\ next_step \in 1..LastStep
    /\ \E remote_ok \in BOOLEAN :
        disk' = ScriptEffect(next_step, BeforeStep(next_step, disk), run_no, remote_ok)
    /\ started' = Append(started, next_step)
    /\ reported' = Append(reported, TRUE)
    /\ steps_completed' = steps_completed + 1
    /\ next_step' = StepAfter(next_step, TRUE)
    /\ folder_cleared' = (folder_cleared \/ ClearedBy(next_step))
    /\ pipeline_complete' = CompleteAfter(next_step, TRUE)
    /\ UNCHANGED run_no
    /\ UNCHANGED pipelineFrame

\* run_script for a script that exits with an error code (or is not
\* found) before it writes its file: run_script returns False.
RunScriptFails ==
    /\ next_step \in 1..LastStep
    /\ disk' = BeforeStep(next_step, disk)
    /\ started' = Append(started, next_step)
    /\ reported' = Append(reported, FALSE)
    /\ next_step' = StepAfter(next_step, FALSE)
    /\ folder_cleared' = (folder_cleared \/ ClearedBy(next_step))
    /\ pipeline_complete' = CompleteAfter(next_step, FALSE)
    /\ UNCHANGED <<run_no, steps_completed>>
    /\ UNCHANGED pipelineFrame

main == RunScriptOk \/ RunScriptFails

\* main is run again (a later day): the files of the earlier run are still
\* on disk.
NewRun ==
    /\ next_step = 0
    /\ run_no < MaxRuns
    /\ run_no' = run_no + 1
    /\ next_step' = 1
    /\ started' = <<>>
    /\ reported' = <<>>
    /\ steps_completed' = 0
    /\ folder_cleared' = FALSE
    /\ pipeline_complete' = FALSE
    /\ UNCHANGED disk
    /\ UNCHANGED pipelineFrame

InitPipeline ==
    /\ CombineIdle
    /\ torvik_csv = NoFile
    /\ PredictIdle
    /\ IngestIdle
    /\ PipelineIdle

NextPipeline == main \/ NewRun

SpecPipeline == InitPipeline /\ [][NextPipeline]_vars

(***************************************************************************)
(* Properties of the pipeline.                                             *)
(***************************************************************************)
\* C19: the consensus written by a run is computed only from rating and
\* prediction tables produced during that same run.
C19_ConsensusFromSameRunTables ==
    OnDisk(disk.combined) => disk.combined.oldest = disk.combined.made

\* A consensus holding a table of an earlier run is only written in a run
\* after the first.
FirstRunConsensusIsFresh ==
    OnDisk(disk.combined) /\ disk.combined.made = 1 => disk.combined.oldest = 1

LastStarted == started[Len(started)]

StopSteps == (1..LastStep) \ WarnOnlySteps

\* C20: the steps are started in the order 1..8; after a reported failure
\* of step 1, 2, 3, 7 or 8 no later step is started; after a reported
\* failure of step 4, 5 or 6 the next step is started as after a success.
C20_StepOrderAndStops ==
    /\ \A i \in 1..Len(started) : started[i] = i
    /\ Len(reported) = Len(started)
    /\ \A i \in 1..(Len(started) - 1) : ~reported[i] => started[i] \in WarnOnlySteps
    /\ started # <<>> /\ ~reported[Len(started)] /\ LastStarted \in StopSteps
            => next_step = 0
    /\ started # <<>> /\ LastStarted \in WarnOnlySteps => next_step = LastStarted + 1
    /\ started # <<>> /\ reported[Len(started)] /\ LastStarted < LastStep
            => next_step = LastStarted + 1
    /\ started = <<>> => next_step = 1

\* All eight steps were started although steps 4, 5 and 6 reported failure.
C20_Witness ==
    /\ Len(started) = LastStep
    /\ ~reported[4] /\ ~reported[5] /\ ~reported[6]
    /\ next_step = 0

Reported(step) == Len(started) >= step /\ reported[step]

\* C21: a step that does not produce its output is reported as failed:
\* when run_script has returned True for step 1 (fetch_daily_games.py) the
\* run has written daily_matchups.csv, and when it has returned True for
\* step 2 (kenpom_fetch.py) the run has written kenpom_data.csv.
C21_StepWithoutOutputReportsFailure ==
    /\ Reported(1) => disk.matchups.made = run_no
    /\ Reported(2) => disk.kenpom_data.made = run_no

\* The converse direction: a step for which run_script returned False has
\* not written its file in this run.
FailedStepWroteNothing ==
    /\ Len(started) >= 1 /\ ~reported[1] => disk.matchups.made # run_no
    /\ Len(started) >= 2 /\ ~reported[2] => disk.kenpom_data.made # run_no

Successes == Cardinality({i \in 1..Len(reported) : reported[i]})

\* C22: the predictions folder is cleared only after steps 1, 2, 3 and 7
\* have reported success; PIPELINE COMPLETE is printed only if steps 1, 2,
\* 3, 7 and 8 all reported success; steps_completed is at every point the
\* number of steps that have reported success, never more than 8, and
\* between 5 and 8 at completion.
C22_ClearAndCompleteAfterSuccess ==
    /\ folder_cleared => \A s \in {1, 2, 3, 7} : Reported(s)
    /\ pipeline_complete => \A s \in {1, 2, 3, 7, 8} : Reported(s)
    /\ steps_completed = Successes
    /\ steps_completed <= LastStep
    /\ pipeline_complete => steps_completed \in 5..8

\* The summary was printed with the least number of completed steps, the
\* folder having been cleared.
C22_Witness ==
    /\ pipeline_complete
    /\ folder_cleared
    /\ steps_completed = 5
    /\ ~reported[4] /\ ~reported[5] /\ ~reported[6]

(***************************************************************************)
(* predict_games: the two lists.                                           *)
(***************************************************************************)
PredictionOf(p, g) == p.HomeTeam = g.home_team /\ p.AwayTeam = g.away_team
SkipOf(k, g) == k.home = g.home_team /\ k.away = g.away_team

\* The games ms are dealt out, each to exactly one of the lists ps and ss,
\* both lists keeping the order of ms.
RECURSIVE DealtOut(_, _, _)
DealtOut(ps, ss, ms) ==
    IF ms = <<>> THEN ps = <<>> /\ ss = <<>>
    ELSE \/ /\ ps # <<>>
            /\ PredictionOf(Head(ps), Head(ms))
            /\ DealtOut(Tail(ps), ss, Tail(ms))
         \/ /\ ss # <<>>
            /\ SkipOf(Head(ss), Head(ms))
            /\ DealtOut(ps, Tail(ss), Tail(ms))

RatedTeams == {t \in Teams : Rated(t)}

\* C24: at a neutral site the projection is symmetric under exchanging the
\* teams: for any two rated teams a and b, calculate_home_score(a, b,
\* neutral_site=True) equals calculate_away_score with a as the away team
\* and b as the home team, and calculate_tempo gives the same value for
\* (a, b) and (b, a).
C24_NeutralSiteExchangeSymmetric ==
    predict_pc \in {"loop", "done"} =>
        \A a \in RatedTeams, b \in RatedTeams :
            /\ calculate_home_score(torvik_data, a, b, TRUE)
                 = calculate_away_score(torvik_data, a, b)
            /\ calculate_tempo(torvik_data, a, b)
                 = calculate_tempo(torvik_data, b, a)

\* A neutral-site game of two teams with different ratings has been
\* predicted, the two scores differ, and the home score is the score the
\* home team is given as the away team of the exchanged game.
C24_Witness ==
    /\ predict_pc = "done"
    /\ Len(matchups_df.rows) = 1 /\ Len(predictions) = 1
    /\ matchups_df.rows[1].neutral_site
    /\ Rated("A") /\ Rated("B") /\ ~SameRatings("A", "B")
    /\ PredictionOf(predictions[1], [home_team |-> "A", away_team |-> "B"])
    /\ predictions[1].HomeScore # predictions[1].AwayScore
    /\ predictions[1].HomeScore
         = Num(Round1(calculate_away_score(torvik_data, "A", "B")))
    /\ predictions[1].AwayScore
         = Num(Round1(calculate_home_score(torvik_data, "B", "A", TRUE)))

(***************************************************************************)
(* Properties of the game cards (checked under SpecCards).                 *)
(***************************************************************************)
\* The minute of the day of a game time on the 24-hour clock; -1 for a time
\* that is missing or not a time.
MinuteOfDay(t) ==
    IF t.kind # "time" THEN -1
    ELSE IF t.pm THEN (IF t.h = 12 THEN 12 * 60 ELSE (t.h + 12) * 60)
    ELSE (IF t.h = 12 THEN 0 ELSE t.h * 60)

CardsOf(row) ==
    Cardinality({i \in 1..Len(game_cards.cards) :
        /\ game_cards.cards[i].home_team = row.HomeTeam
        /\ game_cards.cards[i].away_team = row.AwayTeam
        /\ game_cards.cards[i].home_score = row.HomeScore
        /\ game_cards.cards[i].away_score = row.AwayScore})

RowsLike(row) == Cardinality({i \in 1..Len(final_df) : final_df[i] = row})

InTimeOrder(cards) ==
    \A i \in 1..Len(cards), j \in 1..Len(cards) :
        i < j =>
            \/ MinuteOfDay(cards[j].game_time) = -1
            \/ /\ MinuteOfDay(cards[i].game_time) # -1
               /\ MinuteOfDay(cards[i].game_time) <= MinuteOfDay(cards[j].game_time)

\* C25: main lists exactly one card per row of the combined predictions,
\* in non-decreasing order of game time, the games whose time is missing
\* or not parseable after all games with a valid time.
C25_OneCardPerRowInTimeOrder ==
    game_cards.status = "done" =>
        /\ Len(game_cards.cards) = Len(final_df)
        /\ \A i \in 1..Len(final_df) : CardsOf(final_df[i]) = RowsLike(final_df[i])
        /\ InTimeOrder(game_cards.cards)

\* The order alone: the cards are listed by game time, missing and
\* unparseable times last.
CardsInTimeOrder ==
    game_cards.status = "done" => InTimeOrder(game_cards.cards)

ScheduleKeysUnique ==
    \A i \in 1..Len(matchups_df.rows), j \in 1..Len(matchups_df.rows) :
        /\ matchups_df.rows[i].home_team = matchups_df.rows[j].home_team
        /\ matchups_df.rows[i].away_team = matchups_df.rows[j].away_team
        => i = j

\* One card per row when daily_matchups.csv lists no pair twice.
OneCardPerRowOfUniqueSchedule ==
    game_cards.status = "done" /\ ScheduleKeysUnique =>
        /\ Len(game_cards.cards) = Len(final_df)
        /\ \A i \in 1..Len(final_df) : CardsOf(final_df[i]) = RowsLike(final_df[i])

=============================================================================
